---- MODULE Spec2Model ----
(***************************************************************************)
(* Model of the IMP concerts calendar scraper (src/scraper.py).            *)
(*                                                                         *)
(* Text is modelled as a sequence of one-character strings, so that the    *)
(* regular expressions, int(), strip(), title() and isoformat() of the     *)
(* source are computed character by character.  A Python None is the       *)
(* record None; an optional text that is present is Some(text).            *)
(***************************************************************************)
EXTENDS Integers, Sequences, FiniteSets, TLC

\* ------------------------------------------------------------------------
\* Bounds of the model
\* ------------------------------------------------------------------------
MaxGroups == 2
MaxRecords == 2

\* ------------------------------------------------------------------------
\* Text primitives
\* ------------------------------------------------------------------------
None == [none |-> TRUE]
Some(v) == [some |-> v]
IsNone(x) == x = None

Range(s) == {s[i] : i \in 1..Len(s)}

DigitChars == <<"0","1","2","3","4","5","6","7","8","9">>
LowerChars == <<"a","b","c","d","e","f","g","h","i","j","k","l","m","n","o","p","q","r","s","t","u","v","w","x","y","z">>
UpperChars == <<"A","B","C","D","E","F","G","H","I","J","K","L","M","N","O","P","Q","R","S","T","U","V","W","X","Y","Z">>

IsDigit(c) == c \in Range(DigitChars)
IsLower(c) == c \in Range(LowerChars)
IsUpper(c) == c \in Range(UpperChars)
IsCased(c) == IsLower(c) \/ IsUpper(c)
\* \w and \s of the re module, on the characters the model uses
WordChars == Range(LowerChars) \cup Range(UpperChars) \cup Range(DigitChars) \cup {"_"}
SpaceChars == {" ", "\t", "\n"}

ToLower(c) == IF IsUpper(c) THEN LowerChars[CHOOSE i \in 1..26 : UpperChars[i] = c] ELSE c
ToUpper(c) == IF IsLower(c) THEN UpperChars[CHOOSE i \in 1..26 : LowerChars[i] = c] ELSE c
LowerStr(s) == [i \in 1..Len(s) |-> ToLower(s[i])]
UpperStr(s) == [i \in 1..Len(s) |-> ToUpper(s[i])]

\* str.title(): a cased character is upper-cased when it follows an
\* uncased character (or starts the text) and lower-cased otherwise
Title(s) == [i \in 1..Len(s) |-> IF i = 1 \/ ~IsCased(s[i-1]) THEN ToUpper(s[i]) ELSE ToLower(s[i])]

\* position just after the longest run of characters of the class from i
RunEnd(s, i, class) == CHOOSE j \in i..(Len(s)+1) : (\A k \in i..(j-1) : s[k] \in class) /\ (j = Len(s)+1 \/ s[j] \notin class)

\* position of the last character that is no white space, 0 without one
LastNonSpace(s) == IF \A j \in 1..Len(s) : s[j] \in SpaceChars THEN 0
                   ELSE CHOOSE j \in 1..Len(s) : s[j] \notin SpaceChars /\ \A k \in (j+1)..Len(s) : s[k] \in SpaceChars

\* str.strip() / get_text(strip=True) of an element with one text node
Strip(s) == SubSeq(s, RunEnd(s, 1, SpaceChars), LastNonSpace(s))

\* the slice s[:n]
Prefix(s, n) == SubSeq(s, 1, IF Len(s) < n THEN Len(s) ELSE n)

StartsWith(s, p) == Len(s) >= Len(p) /\ SubSeq(s, 1, Len(p)) = p

DigitVal(c) == CHOOSE n \in 0..9 : DigitChars[n+1] = c

RECURSIVE ToInt(_)
\* int() of a text of decimal digits
ToInt(s) == IF s = <<>> THEN 0 ELSE 10 * ToInt(SubSeq(s, 1, Len(s)-1)) + DigitVal(s[Len(s)])

RECURSIVE Pad(_, _)
\* the decimal digits of n, zero-padded to width w (format specs 04d, 02d)
Pad(n, w) == IF w <= 0 /\ n = 0 THEN <<>> ELSE Append(Pad(n \div 10, w - 1), DigitChars[(n % 10) + 1])

RECURSIVE Join(_, _)
\* sep.join(parts)
Join(parts, sep) == IF parts = <<>> THEN <<>> ELSE IF Len(parts) = 1 THEN parts[1] ELSE parts[1] \o sep \o Join(Tail(parts), sep)

\* index of the first TRUE of a sequence of truth values, 0 without one
FirstTrue(flags) == IF \A i \in 1..Len(flags) : ~flags[i] THEN 0
                    ELSE CHOOSE i \in 1..Len(flags) : flags[i] /\ \A k \in 1..(i-1) : ~flags[k]

\* ------------------------------------------------------------------------
\* datetime
\* ------------------------------------------------------------------------
DefaultHour == 20
DefaultMinute == 0
ShowHours == 3

IsLeap(y) == (y % 4 = 0) /\ ((y % 100 # 0) \/ (y % 400 = 0))
DaysInMonth(y, m) == IF m = 2 THEN (IF IsLeap(y) THEN 29 ELSE 28) ELSE IF m \in {4, 6, 9, 11} THEN 30 ELSE 31

\* the checks of the datetime constructor; a violation raises ValueError
ValidDateTime(y, m, d, hh, mi) == /\ y \in 1..9999
                                  /\ m \in 1..12
                                  /\ d >= 1 /\ d <= DaysInMonth(y, m)
                                  /\ hh \in 0..23
                                  /\ mi \in 0..59

DateTime(y, m, d, hh, mi) == [year |-> y, month |-> m, day |-> d, hour |-> hh, minute |-> mi]

\* the abbreviations strptime's %b accepts (C locale), compared ignoring case
MonthAbbr == <<<<"j","a","n">>, <<"f","e","b">>, <<"m","a","r">>, <<"a","p","r">>, <<"m","a","y">>, <<"j","u","n">>, <<"j","u","l">>, <<"a","u","g">>, <<"s","e","p">>, <<"o","c","t">>, <<"n","o","v">>, <<"d","e","c">>>>

\* index of a lower-case abbreviation; 0 stands for strptime's ValueError
MonthIndex(abbr) == FirstTrue([m \in 1..12 |-> MonthAbbr[m] = abbr])

\* datetime.strptime(text, "%b").month
StrptimeMonth(text) == MonthIndex(LowerStr(text))

\* MidnightBefore with <= in place of <: a midnight equal to the reading counts
MidnightBefore_NotStrict(y, m, d, now) == \/ y < now.year
                                          \/ y = now.year /\ m < now.month
                                          \/ y = now.year /\ m = now.month /\ d <= now.day

\* a reading of datetime.now() is the local date and the microseconds
\* elapsed since midnight; test_date < now compares a midnight with it
MidnightBefore(y, m, d, now) == \/ y < now.year
                                \/ y = now.year /\ m < now.month
                                \/ y = now.year /\ m = now.month /\ d < now.day
                                \/ y = now.year /\ m = now.month /\ d = now.day /\ 0 < now.us

\* day of the week by Zeller's congruence: 0 = Saturday, 1 = Sunday, ...
ZellerDay(yy, mm, d) == (d + ((13 * (mm + 1)) \div 5) + (yy % 100) + ((yy % 100) \div 4) + ((yy \div 100) \div 4) + 5 * (yy \div 100)) % 7
DayOfWeek(y, m, d) == IF m < 3 THEN ZellerDay(y - 1, m + 12, d) ELSE ZellerDay(y, m, d)

\* America/New_York since 2007: daylight time runs from the second Sunday
\* of March 03:00 to the first Sunday of November 02:00 (wall clock, fold 0)
DstStartDay(y) == CHOOSE d \in 8..14 : DayOfWeek(y, 3, d) = 1
DstEndDay(y) == CHOOSE d \in 1..7 : DayOfWeek(y, 11, d) = 1
AfterDstStart(dt, startDay) == dt.month > 3 \/ (dt.month = 3 /\ (dt.day > startDay \/ (dt.day = startDay /\ dt.hour >= 3)))
BeforeDstEnd(dt, endDay) == dt.month < 11 \/ (dt.month = 11 /\ (dt.day < endDay \/ (dt.day = endDay /\ dt.hour < 2)))
InDst(dt) == AfterDstStart(dt, DstStartDay(dt.year)) /\ BeforeDstEnd(dt, DstEndDay(dt.year))
UtcOffset(dt) == IF InDst(dt) THEN <<"-","0","4",":","0","0">> ELSE <<"-","0","5",":","0","0">>

\* datetime.isoformat() of a zone-aware timestamp with zero seconds
IsoFormat(dt) == Pad(dt.year, 4) \o <<"-">> \o Pad(dt.month, 2) \o <<"-">> \o Pad(dt.day, 2) \o <<"T">> \o Pad(dt.hour, 2) \o <<":">> \o Pad(dt.minute, 2) \o <<":","0","0">> \o UtcOffset(dt)

\* the day after dt, at the hour hh
NextDay(dt, hh) == IF dt.day < DaysInMonth(dt.year, dt.month) THEN [dt EXCEPT !.hour = hh, !.day = dt.day + 1]
                   ELSE IF dt.month < 12 THEN [dt EXCEPT !.hour = hh, !.day = 1, !.month = dt.month + 1]
                   ELSE [dt EXCEPT !.hour = hh, !.day = 1, !.month = 1, !.year = dt.year + 1]

\* dt + timedelta(hours=h) for 0 <= h < 24, on the wall clock
AddHours(dt, h) == IF dt.hour + h < 24 THEN [dt EXCEPT !.hour = dt.hour + h] ELSE NextDay(dt, dt.hour + h - 24)

\* ------------------------------------------------------------------------
\* Regular expressions of the source
\* ------------------------------------------------------------------------
NoMatch == [nomatch |-> TRUE]

\* re.search: of the attempts at the positions 1, 2, ... the first match
FirstMatch(attempts) == IF \A i \in 1..Len(attempts) : attempts[i] = NoMatch THEN NoMatch
                        ELSE attempts[CHOOSE i \in 1..Len(attempts) : attempts[i] # NoMatch /\ \A k \in 1..(i-1) : attempts[k] = NoMatch]

\* \d{1,2}: at i: the position of the colon that ends the hour, 0 if none
HourEnd(s, i) == IF i > Len(s) \/ ~IsDigit(s[i]) THEN 0
                 ELSE IF i + 1 <= Len(s) /\ IsDigit(s[i+1]) THEN (IF i + 2 <= Len(s) /\ s[i+2] = ":" THEN i + 2 ELSE 0)
                 ELSE IF i + 1 <= Len(s) /\ s[i+1] = ":" THEN i + 1 ELSE 0

\* (am|pm), IGNORECASE, at e, after the hour at i and the colon at c
AmPmAt(s, i, c, e) == IF e + 1 <= Len(s) /\ ToLower(s[e]) \in {"a", "p"} /\ ToLower(s[e+1]) = "m"
                      THEN [hourText |-> SubSeq(s, i, c - 1), minuteText |-> SubSeq(s, c + 1, c + 2), clock |-> SubSeq(s, i, c + 2), ampm |-> SubSeq(s, e, e + 1)]
                      ELSE NoMatch

\* :(\d{2})\s*(am|pm) from the colon at c
MinuteAt(s, i, c) == IF c # 0 /\ c + 2 <= Len(s) /\ IsDigit(s[c+1]) /\ IsDigit(s[c+2])
                     THEN AmPmAt(s, i, c, RunEnd(s, c + 3, SpaceChars))
                     ELSE NoMatch

\* (\d{1,2}):(\d{2})\s*(am|pm), IGNORECASE, attempted at position i
TimeMatchAt(s, i) == MinuteAt(s, i, HourEnd(s, i))

\* re.search of the door-time pattern
TimeSearch(s) == FirstMatch([i \in 1..Len(s) |-> TimeMatchAt(s, i)])

\* a run of at least one character of the class from p: the position after
\* it, 0 when there is none or p is 0 already
MatchRun(s, p, class) == IF p = 0 \/ p > Len(s) \/ s[p] \notin class THEN 0 ELSE RunEnd(s, p, class)

\* ,? at p
SkipComma(s, p) == IF p # 0 /\ p <= Len(s) /\ s[p] = "," THEN p + 1 ELSE p

\* (\d{1,2}) at e, after the month word from c to d - 1
DayAt(s, c, d, e) == IF e = 0 \/ e > Len(s) \/ ~IsDigit(s[e]) THEN NoMatch
                     ELSE [month_name |-> SubSeq(s, c, d - 1), dayText |-> SubSeq(s, e, IF e + 1 <= Len(s) /\ IsDigit(s[e+1]) THEN e + 1 ELSE e)]

\* (\w+)\s+(\d{1,2}) from the month word at c, which ends before d
MonthWordAt(s, c, d) == DayAt(s, c, d, MatchRun(s, d, SpaceChars))

\* (\w+)\s+(\d{1,2}) at c
MonthAt(s, c) == MonthWordAt(s, c, MatchRun(s, c, WordChars))

\* (\w+),?\s+(\w+)\s+(\d{1,2}) attempted at position i.  The character
\* classes are disjoint, so each greedy run is the maximal one.
DateMatchAt(s, i) == MonthAt(s, MatchRun(s, SkipComma(s, MatchRun(s, i, WordChars)), SpaceChars))

\* re.search of the date pattern
DateSearch(s) == FirstMatch([i \in 1..Len(s) |-> DateMatchAt(s, i)])

\* (\d{4}) attempted at position i
YearMatchAt(s, i) == IF i + 3 <= Len(s) /\ \A k \in i..(i+3) : IsDigit(s[k]) THEN [yearText |-> SubSeq(s, i, i + 3)] ELSE NoMatch

\* re.search of the year pattern
YearSearch(s) == FirstMatch([i \in 1..Len(s) |-> YearMatchAt(s, i)])

\* ------------------------------------------------------------------------
\* parse_date
\* ------------------------------------------------------------------------
\* To24Hour without the exception for 12 pm: every pm hour adds 12
To24Hour_NoNoon(hour, minute, ampm) == [hour |-> IF ampm = <<"p","m">> THEN hour + 12 ELSE IF ampm = <<"a","m">> /\ hour = 12 THEN 0 ELSE hour, minute |-> minute]

\* lines 141-144
To24Hour(hour, minute, ampm) == [hour |-> IF ampm = <<"p","m">> /\ hour # 12 THEN hour + 12 ELSE IF ampm = <<"a","m">> /\ hour = 12 THEN 0 ELSE hour, minute |-> minute]

\* lines 138-144
HourMinute(time_match) == IF time_match = NoMatch THEN [hour |-> DefaultHour, minute |-> DefaultMinute]
                          ELSE To24Hour(ToInt(time_match.hourText), ToInt(time_match.minuteText), LowerStr(time_match.ampm))

\* lines 134-144: the hour and minute of the door time, 20:00 by default
DoorHourMinute(door_time) == IF IsNone(door_time) \/ door_time.some = <<>> THEN [hour |-> DefaultHour, minute |-> DefaultMinute]
                             ELSE HourMinute(TimeMatchAt(door_time.some, 1))

\* lines 152-165: the literal year, or the current year rolled forward
\* when the date is already past; now1 and now2 are the two clock reads
InferYear(year_match, month, day, now1, now2) == IF year_match # NoMatch THEN ToInt(year_match.yearText)
                                                 ELSE IF month = 0 \/ ~ValidDateTime(now1.year, month, day, 0, 0) THEN now1.year
                                                 ELSE IF MidnightBefore(now1.year, month, day, now2) THEN now1.year + 1
                                                 ELSE now1.year

\* lines 167-171
MakeDate(year, month, day, hm) == IF month # 0 /\ ValidDateTime(year, month, day, hm.hour, hm.minute)
                                  THEN DateTime(year, month, day, hm.hour, hm.minute)
                                  ELSE None

\* lines 152-171, for the month number (0: unknown) and the day
ResolveDate(date_str, month, day, hm, now1, now2) == MakeDate(InferYear(YearSearch(date_str), month, day, now1, now2), month, day, hm)

\* lines 148-173
DateOfMatch(date_str, match, hm, now1, now2) == IF match = NoMatch THEN None
                                                ELSE ResolveDate(date_str, StrptimeMonth(Prefix(match.month_name, 3)), ToInt(match.dayText), hm, now1, now2)

\* lines 146-173
DateOfLabel(date_str, hm, now1, now2) == DateOfMatch(date_str, DateSearch(date_str), hm, now1, now2)

\* lines 130-173
ParseDate(date_str, door_time, now1, now2) == DateOfLabel(Strip(date_str), DoorHourMinute(door_time), now1, now2)

\* ------------------------------------------------------------------------
\* parse_event
\* ------------------------------------------------------------------------
\* stands for the one character U+2022 (bullet)
Bullet == "U+2022"

\* (name of the badge class, display name, address)
VENUE_MAP == << [key |-> <<"v","e","n","u","e","-","9","3","0","-","c","l","u","b">>, name |-> <<"9",":","3","0"," ","C","l","u","b">>, address |-> <<"8","1","5"," ","V"," ","S","t"," ","N","W",","," ","W","a","s","h","i","n","g","t","o","n",","," ","D","C"," ","2","0","0","0","1">>],
                [key |-> <<"v","e","n","u","e","-","l","i","n","c","o","l","n","-","t","h","e","a","t","r","e">>, name |-> <<"L","i","n","c","o","l","n"," ","T","h","e","a","t","r","e">>, address |-> <<"1","2","1","5"," ","U"," ","S","t"," ","N","W",","," ","W","a","s","h","i","n","g","t","o","n",","," ","D","C"," ","2","0","0","0","9">>],
                [key |-> <<"v","e","n","u","e","-","t","h","e","-","a","n","t","h","e","m">>, name |-> <<"T","h","e"," ","A","n","t","h","e","m">>, address |-> <<"9","0","1"," ","W","h","a","r","f"," ","S","t"," ","S","W",","," ","W","a","s","h","i","n","g","t","o","n",","," ","D","C"," ","2","0","0","2","4">>],
                [key |-> <<"v","e","n","u","e","-","m","e","r","r","i","w","e","a","t","h","e","r","-","p","o","s","t","-","p","a","v","i","l","i","o","n">>, name |-> <<"M","e","r","r","i","w","e","a","t","h","e","r"," ","P","o","s","t"," ","P","a","v","i","l","i","o","n">>, address |-> <<"1","0","4","7","5"," ","L","i","t","t","l","e"," ","P","a","t","u","x","e","n","t"," ","P","k","w","y",","," ","C","o","l","u","m","b","i","a",","," ","M","D"," ","2","1","0","4","4">>],
                [key |-> <<"v","e","n","u","e","-","t","h","e","a","t","l","a","n","t","i","s">>, name |-> <<"T","h","e"," ","A","t","l","a","n","t","i","s">>, address |-> <<"1","8","1","4"," ","H","a","l","f"," ","S","t"," ","S","W",","," ","W","a","s","h","i","n","g","t","o","n",","," ","D","C"," ","2","0","0","2","4">>] >>

Contains(s, p) == \E i \in 1..(Len(s) - Len(p) + 1) : SubSeq(s, i, i + Len(p) - 1) = p

RECURSIVE Split(_, _)
\* re.split on a character class: the pieces between separator characters
Split(s, seps) == IF \A i \in 1..Len(s) : s[i] \notin seps THEN <<s>>
                  ELSE LET i == CHOOSE j \in 1..Len(s) : s[j] \in seps /\ \A k \in 1..(j-1) : s[k] \notin seps
                       IN <<SubSeq(s, 1, i - 1)>> \o Split(SubSeq(s, i + 1, Len(s)), seps)

StripAll(pieces) == [i \in 1..Len(pieces) |-> Strip(pieces[i])]

NonEmpty(texts) == LET keep(o) == o # <<>> IN SelectSeq(texts, keep)

\* lines 80-85: the pieces of the first h4, stripped, empty ones dropped
Openers(h4) == IF IsNone(h4) THEN <<>> ELSE NonEmpty(StripAll(Split(Strip(h4.some), {Bullet, ",", "&"})))

\* line 94
DoorTimeText(time_match) == IF time_match = NoMatch THEN None ELSE Some(time_match.clock \o <<" ">> \o time_match.ampm)

\* lines 88-94: the door time found in the first doors element
DoorTime(doors) == IF IsNone(doors) THEN None ELSE DoorTimeText(TimeSearch(Strip(doors.some)))

\* select_one("[class*='badge venue-']"): the attribute selector tests the
\* class tokens joined by single spaces for the substring
BadgeSelector(elem) == Contains(Join(elem.classes, <<" ">>), <<"b","a","d","g","e"," ","v","e","n","u","e","-">>)

IsVenueClass(cls) == StartsWith(cls, <<"v","e","n","u","e","-">>)

NoVenue == [venue_name |-> None, venue_address |-> None]

\* lines 104-108: the entry v of VENUE_MAP (0: the class is no key of it)
VenueEntry(v, text) == IF v # 0 THEN [venue_name |-> Some(VENUE_MAP[v].name), venue_address |-> Some(VENUE_MAP[v].address)]
                       ELSE [venue_name |-> Some(Title(Strip(text))), venue_address |-> None]

\* lines 103-109, for the first class that starts with venue-
VenueOfClass(cls, text) == VenueEntry(FirstTrue([v \in 1..Len(VENUE_MAP) |-> VENUE_MAP[v].key = cls]), text)

\* lines 102-109: k is the index of the first class that starts with venue-
VenueOfClasses(venue_elem, k) == IF k = 0 THEN NoVenue ELSE VenueOfClass(venue_elem.classes[k], venue_elem.text)

\* lines 101-109
VenueOfElem(venue_elem) == VenueOfClasses(venue_elem, FirstTrue([k \in 1..Len(venue_elem.classes) |-> IsVenueClass(venue_elem.classes[k])]))

\* lines 100-109: i is the index of the first element the selector matches
VenueOfSelected(elems, i) == IF i = 0 THEN NoVenue ELSE VenueOfElem(elems[i])

\* lines 97-109
Venue(elems) == VenueOfSelected(elems, FirstTrue([i \in 1..Len(elems) |-> BadgeSelector(elems[i])]))

\* lines 113-123
ConcertRecord(headliner, url, openers, v, event_date) == IF IsNone(event_date) THEN None
                                                         ELSE [headliner |-> headliner, date |-> event_date, venue |-> v.venue_name, venue_address |-> v.venue_address, openers |-> openers, url |-> url]

\* lines 64-127; raised says that a step inside the try block raised, which
\* the except clause turns into None
ParseEvent(event_element, date_str, now1, now2, raised) == IF raised THEN None
                                                           ELSE IF IsNone(event_element.h3) THEN None
                                                           ELSE ConcertRecord(Strip(event_element.h3.some), event_element.href, Openers(event_element.h4), Venue(event_element.elems), ParseDate(date_str, DoorTime(event_element.doors), now1, now2))

\* ------------------------------------------------------------------------
\* generate_uid
\* ------------------------------------------------------------------------
\* str() of a value formatted into an f-string
Str(x) == IF IsNone(x) THEN <<"N","o","n","e">> ELSE x.some

\* dict.get(key, default) for a key the dictionary holds
DictGet(value, default) == value

\* line 178
UniqueStr(concert) == concert.headliner \o <<"-">> \o IsoFormat(concert.date) \o <<"-">> \o Str(DictGet(concert.venue, Some(<<>>)))

\* hashlib.md5(text).hexdigest(): the digest is kept as a term over the
\* hashed text (equal texts give equal digests, different texts different
\* ones); its length is that of an MD5 hex digest
HexDigestLen == 32
Md5HexDigest(text) == [md5 |-> text]

\* lines 176-179
GenerateUid(concert) == [hexdigest |-> Md5HexDigest(UniqueStr(concert)), suffix |-> <<"@","i","m","p","c","o","n","c","e","r","t","s">>]
UidLen(uid) == HexDigestLen + Len(uid.suffix)

\* ------------------------------------------------------------------------
\* create_calendar
\* ------------------------------------------------------------------------
\* truth value of an optional text: None and the empty text are false
Truthy(x) == ~IsNone(x) /\ x.some # <<>>

\* Component.add stores the property under its upper-cased name
Prop(name, value) == [name |-> UpperStr(name), value |-> value]

\* lines 184-190
CalendarHeader == << Prop(<<"p","r","o","d","i","d">>, <<"-","/","/","I","M","P"," ","C","o","n","c","e","r","t","s"," ","C","a","l","e","n","d","a","r","/","/","i","m","p","c","o","n","c","e","r","t","s",".","c","o","m","/","/">>),
                     Prop(<<"v","e","r","s","i","o","n">>, <<"2",".","0">>),
                     Prop(<<"c","a","l","s","c","a","l","e">>, <<"G","R","E","G","O","R","I","A","N">>),
                     Prop(<<"m","e","t","h","o","d">>, <<"P","U","B","L","I","S","H">>),
                     Prop(<<"x","-","w","r","-","c","a","l","n","a","m","e">>, <<"I","M","P"," ","C","o","n","c","e","r","t","s">>),
                     Prop(<<"x","-","w","r","-","t","i","m","e","z","o","n","e">>, <<"A","m","e","r","i","c","a","/","N","e","w","_","Y","o","r","k">>) >>

\* EventTitle with the openers joined by " & " instead of ", "
EventTitle_Ampersand(concert) == IF concert.openers # <<>> THEN concert.headliner \o <<" ","(","w","i","t","h"," ">> \o Join(concert.openers, <<" ","&"," ">>) \o <<")">> ELSE concert.headliner

\* lines 196-198
EventTitle(concert) == IF concert.openers # <<>> THEN concert.headliner \o <<" ","(","w","i","t","h"," ">> \o Join(concert.openers, <<","," ">>) \o <<")">> ELSE concert.headliner

\* lines 206-211
EventLocation(concert) == IF Truthy(concert.venue_address) THEN concert.venue_address
                          ELSE IF Truthy(concert.venue) THEN concert.venue
                          ELSE None

\* lines 214-220: the lines of the description that apply
DescriptionParts(concert) == (IF concert.openers # <<>> THEN << <<"W","i","t","h",":"," ">> \o Join(concert.openers, <<","," ">>) >> ELSE <<>>)
                             \o (IF Truthy(concert.venue) THEN << <<"V","e","n","u","e",":"," ">> \o concert.venue.some >> ELSE <<>>)
                             \o (IF Truthy(concert.url) THEN << <<"T","i","c","k","e","t","s",":"," ">> \o concert.url.some >> ELSE <<>>)

\* lines 222-223
JoinedDescription(description_parts) == IF description_parts # <<>> THEN Some(Join(description_parts, <<"\n">>)) ELSE None

\* lines 214-223
EventDescription(concert) == JoinedDescription(DescriptionParts(concert))

\* lines 193-228: one VEVENT; a property that is not added is None
CalendarEvent(concert, stamp) == [summary |-> EventTitle(concert),
                                  dtstart |-> concert.date,
                                  dtend |-> AddHours(concert.date, ShowHours),
                                  dtstamp |-> stamp,
                                  location |-> EventLocation(concert),
                                  description |-> EventDescription(concert),
                                  url |-> IF Truthy(concert.url) THEN concert.url ELSE None,
                                  uid |-> GenerateUid(concert)]

\* lines 182-232; stamp is the clock read for DTSTAMP
CreateCalendar(concerts, stamp) == [properties |-> CalendarHeader, subcomponents |-> [i \in 1..Len(concerts) |-> CalendarEvent(concerts[i], stamp)]]

\* lines 253-258: the calendar main builds when no concert was found
EmptyCalendar == [properties |-> << Prop(<<"p","r","o","d","i","d">>, <<"-","/","/","I","M","P"," ","C","o","n","c","e","r","t","s"," ","C","a","l","e","n","d","a","r","/","/","i","m","p","c","o","n","c","e","r","t","s",".","c","o","m","/","/">>),
                                    Prop(<<"v","e","r","s","i","o","n">>, <<"2",".","0">>),
                                    Prop(<<"c","a","l","s","c","a","l","e">>, <<"G","R","E","G","O","R","I","A","N">>),
                                    Prop(<<"m","e","t","h","o","d">>, <<"P","U","B","L","I","S","H">>),
                                    Prop(<<"x","-","w","r","-","c","a","l","n","a","m","e">>, <<"I","M","P"," ","C","o","n","c","e","r","t","s">>) >>,
                  subcomponents |-> <<>>]

\* cal.to_ical(): the VCALENDAR envelope around the calendar's properties
\* and its VEVENT components, in the order they were added
ToIcal(cal) == [begin |-> <<"V","C","A","L","E","N","D","A","R">>, properties |-> cal.properties, components |-> cal.subcomponents, end |-> <<"V","C","A","L","E","N","D","A","R">>]

\* ------------------------------------------------------------------------
\* State
\* ------------------------------------------------------------------------
\* fn, inp, res: the function a specification applies, its input, its result
\* pc: where main is;  page: the event groups of the page the site serves
\* response: the outcome of the GET;  gi, bi: the loop indices of
\* fetch_concerts;  date_str: the date label of the current group
\* concerts: the list fetch_concerts builds;  visited: the content blocks
\* handed to parse_event so far, with what each call returned
\* out: the lines printed;  now: the last reading of the clock
\* cal: the calendar built;  file: imp_concerts.ics (None while untouched)
\* opens, writes: how often the file was opened and written
VARIABLES fn, inp, res, pc, page, response, gi, bi, date_str, concerts, visited, out, now, cal, file, opens, writes

vars == <<fn, inp, res, pc, page, response, gi, bi, date_str, concerts, visited, out, now, cal, file, opens, writes>>

mainVars == <<pc, page, response, gi, bi, date_str, concerts, visited, out, now, cal, file, opens, writes>>

\* ------------------------------------------------------------------------
\* Inputs: the page the site serves, and the clock
\* ------------------------------------------------------------------------
Moment(y, m, d, us) == [year |-> y, month |-> m, day |-> d, us |-> us]

\* readings the clock can give, in increasing order
Timeline == << Moment(2024, 6, 1, 1), Moment(2025, 6, 1, 0), Moment(2025, 6, 1, 1), Moment(2025, 12, 31, 1), Moment(2026, 1, 1, 0) >>

\* the readings a later datetime.now() can give after the reading t
Later(t) == {Timeline[j] : j \in {k \in 1..Len(Timeline) : \E i \in 1..k : Timeline[i] = t}}

Elem(classes, text) == [classes |-> classes, text |-> text]
Block(h3, href, h4, doors, elems) == [h3 |-> h3, href |-> href, h4 |-> h4, doors |-> doors, elems |-> elems]

\* the text a date banner shows for a date: "Thu, Feb 5", "Feb 5 2025", ...
RenderLabel(l) == (IF IsNone(l.wk) THEN <<>> ELSE l.wk.some \o (IF l.comma THEN <<",">> ELSE <<>>) \o <<" ">>)
                  \o l.mon
                  \o (IF IsNone(l.day) THEN <<>> ELSE <<" ">> \o l.day.some)
                  \o (IF IsNone(l.yr) THEN <<>> ELSE <<" ">> \o l.yr.some)

\* the text a doors element shows for a door time: "Doors: 6:30 pm", ...
RenderDoors(d) == IF IsNone(d) THEN None
                  ELSE IF d.kind = "text" THEN Some(d.text)
                  ELSE Some(d.prefix \o d.h \o <<":">> \o d.mm \o d.sp \o d.ap)

Labels == [wk : {None, Some(<<"T","h","u">>)}, comma : BOOLEAN, mon : {<<"J","a","n">>, <<"F","e","b">>, <<"M","a","y">>, <<"J","u","n">>, <<"D","e","c">>, <<"D","e","c","e","m","b","e","r">>, <<"F","o","o">>}, day : {None, Some(<<"1">>), Some(<<"0","1">>), Some(<<"2">>), Some(<<"1","5">>), Some(<<"2","9">>), Some(<<"3","0">>), Some(<<"3","1">>), Some(<<"1","0","0">>)}, yr : {None, Some(<<"2","0","2","4">>), Some(<<"2","0","2","5">>), Some(<<"0","0","0","0">>)}]

ClockDoors == [kind : {"clock"}, prefix : {<<>>, <<"D","o","o","r","s",":"," ">>}, h : {<<"1">>, <<"6">>, <<"0","6">>, <<"1","1">>, <<"1","2">>, <<"0">>, <<"1","3">>}, mm : {<<"0","0">>, <<"3","0">>, <<"5","9">>, <<"7","5">>}, sp : {<<>>, <<" ">>}, ap : {<<"a","m">>, <<"p","m">>, <<"P","M">>, <<"A","m">>}]
TextDoors == [kind : {"text"}, text : {<<>>, <<"D","o","o","r","s",":"," ","T","B","A">>, <<"7","p","m">>, <<"1","9",":","0","0">>, <<"D","o","o","r","s"," ","7",":","0","0"," ","p",".","m",".">>, <<"7"," ",":"," ","0","0"," ","p","m">>, <<"7",":","0","0"," ","n","o","o","n">>}]

DefaultLabel == [wk |-> Some(<<"T","h","u">>), comma |-> TRUE, mon |-> <<"J","u","l">>, day |-> Some(<<"1","0">>), yr |-> Some(<<"2","0","2","5">>)]
DoorLabels == {DefaultLabel, [DefaultLabel EXCEPT !.yr = None], [DefaultLabel EXCEPT !.day = Some(<<"3","2">>)]}
SevenPm == [kind |-> "clock", prefix |-> <<"D","o","o","r","s",":"," ">>, h |-> <<"7">>, mm |-> <<"0","0">>, sp |-> <<" ">>, ap |-> <<"p","m">>]

BadgeLists == { <<>>,
                << Elem(<<<<"b","a","d","g","e">>, <<"v","e","n","u","e","-","9","3","0","-","c","l","u","b">>>>, <<"9",":","3","0"," ","C","l","u","b">>) >>,
                << Elem(<<<<"v","e","n","u","e","-","9","3","0","-","c","l","u","b">>, <<"b","a","d","g","e">>>>, <<"9",":","3","0"," ","C","l","u","b">>) >>,
                << Elem(<<<<"b","a","d","g","e">>, <<"b","a","d","g","e","-","-","s","m","a","l","l">>, <<"v","e","n","u","e","-","t","h","e","-","a","n","t","h","e","m">>>>, <<"T","h","e"," ","A","n","t","h","e","m">>) >>,
                << Elem(<<<<"b","a","d","g","e">>, <<"v","e","n","u","e","-","t","b","a">>>>, <<" ","t","h","e"," ","o","'","n","e","i","l"," ","h","a","l","l"," ">>) >>,
                << Elem(<<<<"b","a","d","g","e">>, <<"v","e","n","u","e","-","t","b","a">>>>, <<"n","o","n","e">>) >>,
                << Elem(<<<<"b","a","d","g","e">>, <<"v","e","n","u","e","-","t","b","a">>>>, <<>>) >>,
                << Elem(<<<<"t","a","g">>>>, <<"S","o","l","d"," ","O","u","t">>), Elem(<<<<"b","a","d","g","e">>, <<"v","e","n","u","e","-","t","h","e","a","t","l","a","n","t","i","s">>>>, <<"T","h","e"," ","A","t","l","a","n","t","i","s">>) >>,
                << Elem(<<<<"b","a","d","g","e">>, <<"v","e","n","u","e","-","l","i","n","c","o","l","n","-","t","h","e","a","t","r","e">>>>, <<"L","i","n","c","o","l","n">>), Elem(<<<<"b","a","d","g","e">>, <<"v","e","n","u","e","-","m","e","r","r","i","w","e","a","t","h","e","r","-","p","o","s","t","-","p","a","v","i","l","i","o","n">>>>, <<"M","P","P">>) >> }

Headings == {None, Some(<<"B","a","n","d"," ","A">>), Some(<<" ","B","a","n","d"," ","B"," ">>), Some(<<>>), Some(<<" "," ">>)}
SubHeadings == {None, Some(<<"S","u","p","p","o","r","t"," ","O","n","e"," ">> \o <<Bullet>> \o <<" ","S","u","p","p","o","r","t"," ","T","w","o">>), Some(<<" ",","," ","&"," ">>), Some(<<"U","n","o",","," ","D","o","s"," ","&"," ","T","r","e","s">>)}

\* everything one call of parse_event reads
Call(label, doors, h3, href, h4, elems, now1, now2, raised) == [label |-> label, doors |-> doors, h3 |-> h3, href |-> href, h4 |-> h4, elems |-> elems, now1 |-> now1, now2 |-> now2, raised |-> raised]

NowPairs == {p \in Range(Timeline) \X Range(Timeline) : p[2] \in Later(p[1])}

DateCalls == {Call(l, None, Some(<<"B","a","n","d"," ","A">>), None, None, <<>>, p[1], p[2], FALSE) : l \in Labels, p \in NowPairs}
DoorCalls == {Call(l, d, Some(<<"B","a","n","d"," ","A">>), None, None, <<>>, Timeline[3], Timeline[3], FALSE) : l \in DoorLabels, d \in ClockDoors \cup TextDoors}
EventCalls == {Call(l, d, h3, href, h4, e, Timeline[3], Timeline[3], FALSE) : l \in {DefaultLabel, [DefaultLabel EXCEPT !.mon = <<"T","B","A">>]}, d \in {None, SevenPm}, h3 \in Headings, href \in {None, Some(<<"/","e","/","b","a","n","d","-","a">>)}, h4 \in SubHeadings, e \in BadgeLists}
RaisedCalls == {Call(DefaultLabel, SevenPm, h3, None, None, <<>>, Timeline[3], Timeline[3], TRUE) : h3 \in Headings}

CallBlock(c) == Block(c.h3, c.href, c.h4, RenderDoors(c.doors), c.elems)

\* ------------------------------------------------------------------------
\* parse_event and parse_date applied to one content block
\* ------------------------------------------------------------------------
Idle == /\ pc = "idle" /\ page = <<>> /\ response = None /\ gi = 0 /\ bi = 0 /\ date_str = None
        /\ concerts = <<>> /\ visited = <<>> /\ out = <<>> /\ now = Timeline[1]
        /\ cal = None /\ file = None /\ opens = 0 /\ writes = 0

InitParse == /\ fn = "parse_event"
             /\ inp \in DateCalls \cup DoorCalls \cup EventCalls \cup RaisedCalls
             /\ res = None
             /\ Idle

CallParseEvent == /\ fn = "parse_event" /\ res = None
                  /\ \E label \in {Strip(RenderLabel(inp.label))}, block \in {CallBlock(inp)} :
                        \E door_time \in {DoorTime(block.doors)} :
                           res' = [door_time |-> door_time,
                                   event_date |-> ParseDate(label, door_time, inp.now1, inp.now2),
                                   concert |-> ParseEvent(block, label, inp.now1, inp.now2, inp.raised)]
                  /\ UNCHANGED <<fn, inp>>
                  /\ UNCHANGED mainVars

NextParse == CallParseEvent

SpecParse == InitParse /\ [][NextParse]_vars

\* ------------------------------------------------------------------------
\* generate_uid applied to the records of two content blocks
\* ------------------------------------------------------------------------
UidCalls == {Call(DefaultLabel, d, h3, None, None, e, Timeline[3], Timeline[3], FALSE) : d \in {None, SevenPm}, h3 \in {Some(<<"A">>), Some(<<"A","-","B">>), Some(<<"B">>)},
                 e \in { <<>>, << Elem(<<<<"b","a","d","g","e">>, <<"v","e","n","u","e","-","9","3","0","-","c","l","u","b">>>>, <<"9",":","3","0"," ","C","l","u","b">>) >>, << Elem(<<<<"b","a","d","g","e">>, <<"v","e","n","u","e","-","t","b","a">>>>, <<"n","o","n","e">>) >>, << Elem(<<<<"b","a","d","g","e">>, <<"v","e","n","u","e","-","t","b","a">>>>, <<"t","h","e"," ","h","a","l","l">>) >>, << Elem(<<<<"b","a","d","g","e">>, <<"v","e","n","u","e","-","t","b","a">>>>, <<>>) >> }}

CallRecord(c) == ParseEvent(CallBlock(c), Strip(RenderLabel(c.label)), c.now1, c.now2, c.raised)

InitUid == /\ fn = "generate_uid"
           /\ inp \in [a : UidCalls, b : UidCalls]
           /\ res = None
           /\ Idle

CallGenerateUid == /\ fn = "generate_uid" /\ res = None
                   /\ \E r1 \in {CallRecord(inp.a)}, r2 \in {CallRecord(inp.b)} :
                         res' = [r1 |-> r1, r2 |-> r2, s1 |-> UniqueStr(r1), s2 |-> UniqueStr(r2), uid1 |-> GenerateUid(r1), uid2 |-> GenerateUid(r2)]
                   /\ UNCHANGED <<fn, inp>>
                   /\ UNCHANGED mainVars

NextUid == CallGenerateUid

SpecUid == InitUid /\ [][NextUid]_vars

\* ------------------------------------------------------------------------
\* create_calendar applied to a list of records
\* ------------------------------------------------------------------------
CalCalls == {Call(DefaultLabel, SevenPm, h3, v[1], h4, v[2], Timeline[3], Timeline[3], FALSE) : h3 \in {Some(<<"B","a","n","d"," ","A">>), Some(<<" ","B","a","n","d"," ","B"," ">>)}, h4 \in SubHeadings \ {Some(<<" ",","," ","&"," ">>)},
                 v \in { <<None, <<>> >>, <<Some(<<"/","e","/","b","a","n","d","-","a">>), << Elem(<<<<"b","a","d","g","e">>, <<"v","e","n","u","e","-","9","3","0","-","c","l","u","b">>>>, <<"9",":","3","0"," ","C","l","u","b">>) >> >>, <<None, << Elem(<<<<"b","a","d","g","e">>, <<"v","e","n","u","e","-","t","b","a">>>>, <<"t","h","e"," ","h","a","l","l">>) >> >> }}

CalRecords == {CallRecord(c) : c \in CalCalls}

SeqsUpTo(S, n) == UNION {[1..k -> S] : k \in 0..n}

InitCal == /\ fn = "create_calendar"
           /\ inp \in [concerts : SeqsUpTo(CalRecords, MaxRecords)]
           /\ res = None
           /\ Idle

CallCreateCalendar == /\ fn = "create_calendar" /\ res = None
                      /\ \E stamp \in Later(now) : res' = CreateCalendar(inp.concerts, stamp)
                      /\ UNCHANGED <<fn, inp>>
                      /\ UNCHANGED mainVars

NextCal == CallCreateCalendar

SpecCal == InitCal /\ [][NextCal]_vars

\* ------------------------------------------------------------------------
\* main and fetch_concerts
\* ------------------------------------------------------------------------
Line(text) == [line |-> text]

\* the outcomes of requests.get and raise_for_status
ResponseOk == Some(<<"o","k">>)
ErrorFetching == <<"E","r","r","o","r"," ","f","e","t","c","h","i","n","g"," ","c","o","n","c","e","r","t","s",":"," ">>
RequestException == Some(<<"R","e","q","u","e","s","t","E","x","c","e","p","t","i","o","n">>)

\* the content blocks and date banners the pages are made of
NoHeadingBlock == Block(None, Some(<<"/","e","/","a","d">>), None, None, <<>>)
BandABlock == Block(Some(<<"B","a","n","d"," ","A">>), Some(<<"/","e","/","b","a","n","d","-","a">>), Some(<<"S","u","p","p","o","r","t"," ","O","n","e"," ">> \o <<Bullet>> \o <<" ","S","u","p","p","o","r","t"," ","T","w","o">>), Some(<<"D","o","o","r","s",":"," ","7",":","0","0"," ","p","m">>), << Elem(<<<<"b","a","d","g","e">>, <<"v","e","n","u","e","-","9","3","0","-","c","l","u","b">>>>, <<"9",":","3","0"," ","C","l","u","b">>) >>)
BandBBlock == Block(Some(<<" ","B","a","n","d"," ","B"," ">>), None, None, None, <<>>)
Group(label, blocks) == [label |-> label, blocks |-> blocks]

\* the event groups the pages are made of: without date banner, with one
\* or two events, with a banner that is no date, without events, and with
\* a banner that shows no year
Groups == { Group(None, <<BandABlock>>),
            Group(Some(DefaultLabel), <<NoHeadingBlock, BandABlock>>),
            Group(Some(DefaultLabel), <<BandBBlock, NoHeadingBlock>>),
            Group(Some([DefaultLabel EXCEPT !.mon = <<"T","B","A">>]), <<BandABlock>>),
            Group(Some(DefaultLabel), <<>>),
            Group(Some([DefaultLabel EXCEPT !.yr = None]), <<BandBBlock>>) }
Pages == SeqsUpTo(Groups, MaxGroups)

Init == /\ fn = "main" /\ inp = None /\ res = None
        /\ pc = "start"
        /\ page \in Pages
        /\ response = None
        /\ gi = 0 /\ bi = 0 /\ date_str = None
        /\ concerts = <<>> /\ visited = <<>> /\ out = <<>>
        /\ now = Timeline[4]
        /\ cal = None /\ file = None /\ opens = 0 /\ writes = 0

pureVars == <<fn, inp, res>>

\* lines 237, 37-41: the GET succeeds, or raises a RequestException
Fetch == /\ pc = "start"
         /\ \E ok \in BOOLEAN : /\ response' = IF ok THEN ResponseOk ELSE RequestException
                                /\ pc' = IF ok THEN "group" ELSE "except"
                                /\ gi' = IF ok THEN 1 ELSE gi
         /\ out' = Append(out, Line(<<"F","e","t","c","h","i","n","g"," ","c","o","n","c","e","r","t","s"," ","f","r","o","m"," ","I","M","P"," ","C","o","n","c","e","r","t","s",".",".",".">>))
         /\ UNCHANGED <<page, bi, date_str, concerts, visited, now, cal, file, opens, writes>>
         /\ UNCHANGED pureVars

\* lines 46-54: the next group; one without a date banner is skipped
NextGroup == /\ pc = "group" /\ gi <= Len(page)
             /\ LET group == page[gi]
                IN IF IsNone(group.label) \/ group.blocks = <<>>
                   THEN /\ gi' = gi + 1
                        /\ UNCHANGED <<pc, bi, date_str>>
                   ELSE /\ date_str' = Some(Strip(RenderLabel(group.label.some)))
                        /\ bi' = 1
                        /\ pc' = "block"
                        /\ UNCHANGED gi
             /\ UNCHANGED <<page, response, concerts, visited, out, now, cal, file, opens, writes>>
             /\ UNCHANGED pureVars

\* AppendConcert putting the record in front of the list
AppendConcert_Prepend(list, concert) == IF concert # None THEN <<concert>> \o list ELSE list

\* lines 58-59
AppendConcert(list, concert) == IF concert # None THEN Append(list, concert) ELSE list

\* lines 56-59: parse_event on the next block of the group; raised says
\* that a step inside parse_event's try block raised
ParseBlock == /\ pc = "block"
              /\ \E raised \in BOOLEAN, t \in Later(now) :
                    \E concert \in {ParseEvent(page[gi].blocks[bi], date_str.some, now, t, raised)} :
                       /\ concerts' = AppendConcert(concerts, concert)
                       /\ visited' = Append(visited, [g |-> gi, b |-> bi, raised |-> raised, concert |-> concert])
                       /\ out' = IF raised THEN Append(out, Line(<<"E","r","r","o","r"," ","p","a","r","s","i","n","g"," ","e","v","e","n","t",":"," ">>)) ELSE out
                       /\ now' = t
              /\ IF bi < Len(page[gi].blocks)
                 THEN bi' = bi + 1 /\ UNCHANGED <<pc, gi>>
                 ELSE pc' = "group" /\ gi' = gi + 1 /\ UNCHANGED bi
              /\ UNCHANGED <<page, response, date_str, cal, file, opens, writes>>
              /\ UNCHANGED pureVars

\* lines 61, 240-241: fetch_concerts returns and main reports the count
Return == /\ pc = "group" /\ gi > Len(page)
          /\ out' = Append(out, Line(<<"F","o","u","n","d"," ">> \o Pad(Len(concerts), 1) \o <<" ","c","o","n","c","e","r","t","s">>))
          /\ pc' = "found"
          /\ UNCHANGED <<page, response, gi, bi, date_str, concerts, visited, now, cal, file, opens, writes>>
          /\ UNCHANGED pureVars

\* lines 243-244
BuildCalendar == /\ pc = "found" /\ concerts # <<>>
                 /\ \E stamp \in Later(now) : cal' = CreateCalendar(concerts, stamp) /\ now' = stamp
                 /\ pc' = "open"
                 /\ UNCHANGED <<page, response, gi, bi, date_str, concerts, visited, out, file, opens, writes>>
                 /\ UNCHANGED pureVars

\* lines 251-258
BuildEmptyCalendar == /\ pc = "found" /\ concerts = <<>>
                      /\ out' = Append(out, Line(<<"N","o"," ","c","o","n","c","e","r","t","s"," ","f","o","u","n","d","."," ","C","r","e","a","t","i","n","g"," ","e","m","p","t","y"," ","c","a","l","e","n","d","a","r",".",".",".">>))
                      /\ cal' = EmptyCalendar
                      /\ pc' = "open"
                      /\ UNCHANGED <<page, response, gi, bi, date_str, concerts, visited, now, file, opens, writes>>
                      /\ UNCHANGED pureVars

\* lines 247, 260: open(..., "wb") truncates the file
OpenFile == /\ pc = "open"
            /\ opens' = opens + 1
            /\ file' = [content |-> None]
            /\ pc' = "write"
            /\ UNCHANGED <<page, response, gi, bi, date_str, concerts, visited, out, now, cal, writes>>
            /\ UNCHANGED pureVars

\* lines 248-250, 261
WriteFile == /\ pc = "write"
             /\ file' = [content |-> Some(ToIcal(cal))]
             /\ writes' = writes + 1
             /\ out' = IF concerts # <<>> THEN Append(out, Line(<<"C","a","l","e","n","d","a","r"," ","s","a","v","e","d"," ","t","o"," ","i","m","p","_","c","o","n","c","e","r","t","s",".","i","c","s">>)) ELSE out
             /\ pc' = "done"
             /\ UNCHANGED <<page, response, gi, bi, date_str, concerts, visited, now, cal, opens>>
             /\ UNCHANGED pureVars

\* Except leaving an empty file behind before it raises again
Except_TruncatesFile == /\ pc = "except"
                        /\ out' = Append(out, Line(ErrorFetching))
                        /\ opens' = opens + 1
                        /\ file' = [content |-> None]
                        /\ pc' = "raised"
                        /\ UNCHANGED <<page, response, gi, bi, date_str, concerts, visited, now, cal, writes>>
                        /\ UNCHANGED pureVars

\* lines 263-265: the failure is reported and raised again
Except == /\ pc = "except"
          /\ out' = Append(out, Line(ErrorFetching))
          /\ pc' = "raised"
          /\ UNCHANGED <<page, response, gi, bi, date_str, concerts, visited, now, cal, file, opens, writes>>
          /\ UNCHANGED pureVars

Next == \/ Fetch
        \/ NextGroup
        \/ ParseBlock
        \/ Return
        \/ BuildCalendar
        \/ BuildEmptyCalendar
        \/ OpenFile
        \/ WriteFile
        \/ Except

Spec == Init /\ [][Next]_vars

\* ------------------------------------------------------------------------
\* Properties of parse_event and parse_date (SpecParse)
\* ------------------------------------------------------------------------
Parsed == fn = "parse_event" /\ res # None

\* the month a label's month word names, by the calendar's month names (at
\* least three leading letters, any case); 0 when it names none
MonthNames == <<<<"j","a","n","u","a","r","y">>, <<"f","e","b","r","u","a","r","y">>, <<"m","a","r","c","h">>, <<"a","p","r","i","l">>, <<"m","a","y">>, <<"j","u","n","e">>, <<"j","u","l","y">>, <<"a","u","g","u","s","t">>, <<"s","e","p","t","e","m","b","e","r">>, <<"o","c","t","o","b","e","r">>, <<"n","o","v","e","m","b","e","r">>, <<"d","e","c","e","m","b","e","r">>>>
NamedMonth(word) == IF \E m \in 1..12 : Len(word) >= 3 /\ StartsWith(MonthNames[m], LowerStr(word))
                    THEN CHOOSE m \in 1..12 : StartsWith(MonthNames[m], LowerStr(word))
                    ELSE 0

\* the longest any year makes the month
LongestMonth(m) == IF m = 2 THEN 29 ELSE IF m \in {4, 6, 9, 11} THEN 30 ELSE 31

\* calendar days as one number, to compare dates
DayNumber(y, m, d) == y * 10000 + m * 100 + d

\* the label has the form "<word>[,] <month> <day>" and names a month and a
\* day that month can have
NamesValidDay(l) == /\ ~IsNone(l.wk) /\ ~IsNone(l.day)
                    /\ NamedMonth(l.mon) # 0
                    /\ ToInt(l.day.some) \in 1..LongestMonth(NamedMonth(l.mon))

\* the door time is absent, shows no time, or shows one the clock has
DoorInRange(d) == \/ IsNone(d)
                  \/ d.kind = "text"
                  \/ d.kind = "clock" /\ ToInt(d.mm) <= 59 /\ (ToInt(d.h) <= 12 \/ (LowerStr(d.ap) = <<"a","m">> /\ ToInt(d.h) <= 23))

\* midnight of y-m-d is strictly before the reading t
StrictlyBefore(y, m, d, t) == \/ DayNumber(y, m, d) < DayNumber(t.year, t.month, t.day)
                              \/ DayNumber(y, m, d) = DayNumber(t.year, t.month, t.day) /\ t.us > 0

\* C1 (as claimed): every record parse_event returns has a non-empty
\* headliner and a timestamp as its date
C1_RecordHasHeadlinerAndDate == Parsed /\ res.concert # None => /\ res.concert.headliner # <<>>
                                                               /\ res.concert.date # None
                                                               /\ ValidDateTime(res.concert.date.year, res.concert.date.month, res.concert.date.day, res.concert.date.hour, res.concert.date.minute)

\* C7 (as claimed): a label without a 4-digit year that names a valid
\* month/day resolves to next year when that day of the current year, at
\* midnight, is strictly before the current moment, and to the current year
\* otherwise; a label with a 4-digit year uses that year, never rolled forward
C7_YearInferenceAsClaimed == Parsed /\ ~inp.raised /\ NamesValidDay(inp.label) /\ DoorInRange(inp.doors) =>
                                 LET l == inp.label
                                     m == NamedMonth(l.mon)
                                     d == ToInt(l.day.some)
                                     cy == inp.now1.year
                                     past == d <= DaysInMonth(cy, m) /\ StrictlyBefore(cy, m, d, inp.now2)
                                 IN IF IsNone(l.yr)
                                    THEN res.event_date # None /\ res.event_date.year = (IF past THEN cy + 1 ELSE cy) /\ res.event_date.month = m /\ res.event_date.day = d
                                    ELSE res.event_date = None \/ res.event_date.year = ToInt(l.yr.some)

\* C7 (amended): as claimed, except that the timestamp is returned only when
\* the month/day exists in the year picked; when it does not (Feb 29 in a
\* year that is not a leap year) parse_date returns failure
C7_YearInference == Parsed /\ ~inp.raised /\ NamesValidDay(inp.label) /\ DoorInRange(inp.doors) =>
                        LET l == inp.label
                            m == NamedMonth(l.mon)
                            d == ToInt(l.day.some)
                            cy == inp.now1.year
                            past == d <= DaysInMonth(cy, m) /\ StrictlyBefore(cy, m, d, inp.now2)
                            picked == IF past THEN cy + 1 ELSE cy
                        IN IF IsNone(l.yr)
                           THEN IF d <= DaysInMonth(picked, m)
                                THEN res.event_date # None /\ res.event_date.year = picked /\ res.event_date.month = m /\ res.event_date.day = d
                                ELSE res.event_date = None
                           ELSE res.event_date = None \/ res.event_date.year = ToInt(l.yr.some)

\* C7 witness: a January 15 label read on 2025-06-01 resolved to 2026-01-15
C7_Witness == /\ Parsed /\ IsNone(inp.label.yr) /\ NamesValidDay(inp.label)
              /\ inp.now1 = Moment(2025, 6, 1, 1) /\ inp.now2 = inp.now1
              /\ inp.label.mon = <<"J","a","n">> /\ inp.label.day = Some(<<"1","5">>)
              /\ res.event_date # None /\ res.event_date.year = 2026 /\ res.event_date.month = 1 /\ res.event_date.day = 15

\* C8: a door time H:MM am|pm with H in 1..12 and MM in 00..59 gives the
\* 24-hour time (12 am is 0, 12 pm is 12, other pm hours add 12) with the
\* minute unchanged; an absent or unmatched door time gives 20:00; the hour
\* of a returned timestamp is in 0..23
C8_DoorTime == Parsed /\ ~inp.raised /\ inp.label \in {DefaultLabel, [DefaultLabel EXCEPT !.yr = None]} =>
                   LET d == inp.doors
                       shown == ~IsNone(d) /\ d.kind = "clock"
                       h == ToInt(d.h)
                       mm == ToInt(d.mm)
                       pm == d.ap \in {<<"p","m">>, <<"P","M">>, <<"P","m">>, <<"p","M">>}
                   IN /\ res.event_date # None => res.event_date.hour \in 0..23 /\ res.event_date.minute \in 0..59
                      /\ ~shown => res.event_date # None /\ res.event_date.hour = 20 /\ res.event_date.minute = 0
                      /\ shown /\ h \in 1..12 /\ mm \in 0..59 =>
                            /\ res.event_date # None
                            /\ res.event_date.minute = mm
                            /\ res.event_date.hour = (IF pm THEN (IF h = 12 THEN 12 ELSE h + 12) ELSE (IF h = 12 THEN 0 ELSE h))

\* C8 witness: "12:00 pm" parsed and kept as hour 12
C8_Witness == /\ Parsed /\ ~IsNone(inp.doors) /\ inp.doors.kind = "clock"
              /\ inp.doors.h = <<"1","2">> /\ inp.doors.mm = <<"0","0">> /\ inp.doors.ap = <<"p","m">>
              /\ res.door_time = Some(<<"1","2",":","0","0"," ","p","m">>)
              /\ res.event_date # None /\ res.event_date.hour = 12 /\ res.event_date.minute = 0

\* C9 (as claimed): parse_date returns failure, or a timestamp whose month
\* and day are the month named and the day number given in the label and
\* whose year is the label's 4-digit year when it has one; a label without a
\* month/day, with an unrecognised month or with an impossible day returns
\* failure, and parse_event then returns no record
C9_NoClampOrWrap == Parsed /\ ~inp.raised =>
                        LET l == inp.label
                            e == res.event_date
                        IN /\ e # None => /\ NamedMonth(l.mon) = e.month
                                          /\ ~IsNone(l.day) /\ ToInt(l.day.some) = e.day
                                          /\ ~IsNone(l.yr) => ToInt(l.yr.some) = e.year
                           /\ IsNone(l.day) \/ NamedMonth(l.mon) = 0 => e = None
                           /\ ~IsNone(l.day) /\ NamedMonth(l.mon) # 0 /\ ToInt(l.day.some) > LongestMonth(NamedMonth(l.mon)) => e = None
                           /\ e = None => res.concert = None

\* C10 (as claimed): an element whose class tokens include badge and a
\* venue- token, in any order, has that token resolved: a VENUE_MAP key to
\* its name and address, any other token to the title-cased text and no
\* address; without such an element venue and address are unset; an
\* address is set only together with its own venue's name
C10_VenueResolution == Parsed /\ res.concert # None =>
                           LET isBadge(e) == (\E i \in 1..Len(e.classes) : e.classes[i] = <<"b","a","d","g","e">>) /\ (\E i \in 1..Len(e.classes) : StartsWith(e.classes[i], <<"v","e","n","u","e","-">>))
                               es == inp.elems
                               c == res.concert
                           IN /\ (\A i \in 1..Len(es) : ~isBadge(es[i])) => c.venue = None /\ c.venue_address = None
                              /\ (\E i \in 1..Len(es) : isBadge(es[i])) =>
                                    LET e == es[CHOOSE i \in 1..Len(es) : isBadge(es[i]) /\ \A k \in 1..(i-1) : ~isBadge(es[k])]
                                        token == e.classes[CHOOSE i \in 1..Len(e.classes) : StartsWith(e.classes[i], <<"v","e","n","u","e","-">>) /\ \A k \in 1..(i-1) : ~StartsWith(e.classes[k], <<"v","e","n","u","e","-">>)]
                                    IN IF \E v \in 1..Len(VENUE_MAP) : VENUE_MAP[v].key = token
                                       THEN \E v \in 1..Len(VENUE_MAP) : VENUE_MAP[v].key = token /\ c.venue = Some(VENUE_MAP[v].name) /\ c.venue_address = Some(VENUE_MAP[v].address)
                                       ELSE c.venue = Some(Title(Strip(e.text))) /\ c.venue_address = None
                              /\ c.venue_address # None => \E v \in 1..Len(VENUE_MAP) : c.venue = Some(VENUE_MAP[v].name) /\ c.venue_address = Some(VENUE_MAP[v].address)

\* ------------------------------------------------------------------------
\* Properties of fetch_concerts and main (Spec)
\* ------------------------------------------------------------------------
\* the positions, in the page, of the blocks of the groups with a date label
LabelledBlocks == UNION {{<<g, b>> : b \in 1..Len(page[g].blocks)} : g \in {k \in 1..Len(page) : ~IsNone(page[k].label)}}

Returned == pc \in {"found", "open", "write", "done"}

\* C2: fetch_concerts hands every block of every group with a date label
\* to parse_event, in document order; a block without heading, with an
\* unparseable date or whose parse raised yields no record and the loop
\* goes on; the list returned is the records of the other blocks, in order
C2_EveryBlockProcessed == fn = "main" /\ Returned =>
                              /\ {<<visited[i].g, visited[i].b>> : i \in 1..Len(visited)} = LabelledBlocks
                              /\ \A i, j \in 1..Len(visited) : i < j => \/ visited[i].g < visited[j].g
                                                                        \/ visited[i].g = visited[j].g /\ visited[i].b < visited[j].b
                              /\ \A i \in 1..Len(visited) :
                                    LET block == page[visited[i].g].blocks[visited[i].b]
                                        label == page[visited[i].g].label.some
                                        skipped == IsNone(block.h3) \/ visited[i].raised \/ NamedMonth(label.mon) = 0
                                    IN /\ skipped <=> visited[i].concert = None
                                       /\ ~skipped => visited[i].concert.headliner = Strip(block.h3.some)
                              /\ LET kept == SelectSeq(visited, LAMBDA v : v.concert # None)
                                 IN concerts = [i \in 1..Len(kept) |-> kept[i].concert]

\* C2 witness: a parse raised, a later block still gave a record, and the
\* list was returned
C2_Witness == /\ fn = "main" /\ Returned
              /\ \E i, j \in 1..Len(visited) : i < j /\ visited[i].raised /\ visited[j].concert # None
              /\ \E i \in 1..Len(visited) : IsNone(page[visited[i].g].blocks[visited[i].b].h3)
              /\ concerts # <<>>

\* C3: a failed fetch is reported and raised again without the file being
\* opened or written; after a successful fetch the file is opened and
\* written once, only when the whole list is assembled, and the run ends
\* normally, also when no concert was found
C3_FileWrittenOnce == fn = "main" =>
                          /\ opens <= 1 /\ writes <= opens
                          /\ response = RequestException => /\ pc \in {"except", "raised"}
                                                            /\ opens = 0 /\ writes = 0 /\ file = None
                                                            /\ pc = "raised" => out[Len(out)].line = ErrorFetching
                          /\ pc \in {"except", "raised"} => response = RequestException
                          /\ opens > 0 => /\ pc \in {"write", "done"}
                                          /\ {<<visited[i].g, visited[i].b>> : i \in 1..Len(visited)} = LabelledBlocks
                                          /\ Len(concerts) = Cardinality({i \in 1..Len(visited) : visited[i].concert # None})
                          /\ pc = "done" => opens = 1 /\ writes = 1 /\ file = [content |-> Some(ToIcal(cal))]
                          /\ response = ResponseOk /\ pc # "done" => /\ pc \in {"group", "block", "found", "open", "write"}
                                                                     /\ pc = "block" => gi \in 1..Len(page) /\ bi \in 1..Len(page[gi].blocks) /\ date_str # None
                                                                     /\ pc = "write" => cal # None

\* C3 witness: a run that found no concert ended normally, file written
C3_Witness == fn = "main" /\ pc = "done" /\ concerts = <<>> /\ visited # <<>> /\ writes = 1 /\ file # None

\* C5 (as claimed): the document a successful run writes carries PRODID,
\* VERSION, CALSCALE, METHOD, the calendar name and the calendar timezone,
\* whether or not a concert was found
C5_SameMetadata == fn = "main" /\ pc = "done" =>
                       \A name \in {<<"P","R","O","D","I","D">>, <<"V","E","R","S","I","O","N">>, <<"C","A","L","S","C","A","L","E">>, <<"M","E","T","H","O","D">>, <<"X","-","W","R","-","C","A","L","N","A","M","E">>, <<"X","-","W","R","-","T","I","M","E","Z","O","N","E">>} :
                           \E i \in 1..Len(file.content.some.properties) : file.content.some.properties[i].name = name

\* ------------------------------------------------------------------------
\* Properties of create_calendar (SpecCal)
\* ------------------------------------------------------------------------
\* C4: the calendar has one entry per record, in input order; entry i has
\* a non-empty UID and a title that is record i's headliner, followed by
\* " (with X, Y)" listing the openers exactly when there are openers
C4_OneEntryPerRecord == fn = "create_calendar" /\ res # None =>
                            /\ Len(res.subcomponents) = Len(inp.concerts)
                            /\ \A i \in 1..Len(inp.concerts) :
                                  LET entry == res.subcomponents[i]
                                      record == inp.concerts[i]
                                      title == entry.summary
                                      rest == SubSeq(title, Len(record.headliner) + 1, Len(title))
                                  IN /\ UidLen(entry.uid) > 0
                                     /\ entry.uid.hexdigest = Md5HexDigest(UniqueStr(record))
                                     /\ entry.dtstart = record.date
                                     /\ StartsWith(title, record.headliner)
                                     /\ record.openers = <<>> <=> rest = <<>>
                                     /\ record.openers # <<>> => rest = <<" ","(","w","i","t","h"," ">> \o Join(record.openers, <<","," ">>) \o <<")">>

\* C4 witness: two records, the first with two openers, the second without
C4_Witness == /\ fn = "create_calendar" /\ res # None
              /\ Len(inp.concerts) = 2 /\ Len(res.subcomponents) = 2
              /\ inp.concerts[1].headliner # inp.concerts[2].headliner
              /\ Len(inp.concerts[1].openers) = 2 /\ inp.concerts[2].openers = <<>>
              /\ res.subcomponents[1].summary = <<"B","a","n","d"," ","A"," ","(","w","i","t","h"," ","S","u","p","p","o","r","t"," ","O","n","e",","," ","S","u","p","p","o","r","t"," ","T","w","o",")">>

\* ------------------------------------------------------------------------
\* Properties of generate_uid (SpecUid)
\* ------------------------------------------------------------------------
\* C6 (as claimed): the identifier is a function of headliner, ISO date
\* and venue name, where an absent venue counts as the empty text; records
\* equal in the three get the same identifier, records differing in exactly
\* one of them hash different texts
C6_UidOfThreeFields == fn = "generate_uid" /\ res # None =>
                           LET venueText(r) == IF IsNone(r.venue) THEN <<>> ELSE r.venue.some
                               venueDiffers == res.r1.venue # res.r2.venue /\ (venueText(res.r1) # <<>> \/ venueText(res.r2) # <<>>)
                               differing == (IF res.r1.headliner # res.r2.headliner THEN 1 ELSE 0) + (IF res.r1.date # res.r2.date THEN 1 ELSE 0) + (IF venueDiffers THEN 1 ELSE 0)
                           IN /\ res.s1 = res.r1.headliner \o <<"-">> \o IsoFormat(res.r1.date) \o <<"-">> \o venueText(res.r1)
                              /\ res.r1.headliner = res.r2.headliner /\ res.r1.date = res.r2.date /\ res.r1.venue = res.r2.venue => res.uid1 = res.uid2
                              /\ differing = 1 => res.s1 # res.s2 /\ res.uid1 # res.uid2

====
